---- MODULE Spec2Model ----
\* mensa-cli: one invocation of `main` (src/main.rs) with the meal report
\* renderer `print_meals` (src/cli/cli.rs).  The external collaborators
\* (canteen directory, meal lookup, meme/fact services, chat bot, clock,
\* file system) are the environment: every answer they can give is an input.
EXTENDS Integers, Sequences, FiniteSets, TLC

\* ------------------------------------------------------------------ bounds
MaxCanteens == 3
MaxMeals == 1

\* ------------------------------------------------------------ value domains
\* Option<T>: None, or Some(x).
None == <<>>

Some(x) == <<x>>

Unwrap(o) == o[1]

CanteenIds == 1..MaxCanteens

CanteenNames == <<"Alte Mensa", "Siedepunkt", "Zeltschloesschen", "WUeins", "Mensologie">>

\* openmensa_rust_interface::Canteen, reduced to the fields the program reads.
Canteen(i) == [id |-> i, name |-> CanteenNames[i]]

RECURSIVE SeqsOver(_, _)
\* Sequences of pairwise distinct elements of S, of length at most n.
SeqsOver(S, n) ==
    IF n = 0 \/ S = {} THEN {<<>>}
    ELSE {<<>>} \cup UNION {{<<x>> \o t : t \in SeqsOver(S \ {x}, n - 1)} : x \in S}

CanteenLists == {[i \in DOMAIN s |-> Canteen(s[i])] : s \in SeqsOver(CanteenIds, MaxCanteens)}

\* The values of configs.locations.canteens that are tried.
DefaultIdLists == {<<>>, <<1>>, <<2, 1>>}

\* ------------------------------------------------------------------- dates
\* A NaiveDate is <<year, month, day>>.
NoDate == <<0, 0, 0>>

IsLeap(y) == (y % 4 = 0 /\ y % 100 # 0) \/ y % 400 = 0

DaysInMonth(y, m) ==
    IF m = 2 THEN (IF IsLeap(y) THEN 29 ELSE 28)
    ELSE IF m \in {4, 6, 9, 11} THEN 30 ELSE 31

ValidDate(y, m, d) == m \in 1..12 /\ d \in 1..DaysInMonth(y, m)

NextDay(dt) ==
    IF dt[3] < DaysInMonth(dt[1], dt[2]) THEN <<dt[1], dt[2], dt[3] + 1>>
    ELSE IF dt[2] < 12 THEN <<dt[1], dt[2] + 1, 1>>
    ELSE <<dt[1] + 1, 1, 1>>

PrevDay(dt) ==
    IF dt[3] > 1 THEN <<dt[1], dt[2], dt[3] - 1>>
    ELSE IF dt[2] > 1 THEN <<dt[1], dt[2] - 1, DaysInMonth(dt[1], dt[2] - 1)>>
    ELSE <<dt[1] - 1, 12, 31>>

DigitChars == <<"0", "1", "2", "3", "4", "5", "6", "7", "8", "9">>

IsDigit(c) == \E i \in 1..10 : DigitChars[i] = c

DigitVal(c) == (CHOOSE i \in 1..10 : DigitChars[i] = c) - 1

RECURSIVE ScanDigits(_, _, _)
\* chrono scan::number(s, 1, max): how many leading digits of s, at most max.
ScanDigits(s, pos, max) ==
    IF max = 0 \/ pos > Len(s) \/ ~IsDigit(s[pos]) THEN 0
    ELSE 1 + ScanDigits(s, pos + 1, max - 1)

RECURSIVE NumVal(_, _, _)
\* The value of the n digits of s that start at pos.
NumVal(s, pos, n) ==
    IF n = 0 THEN 0
    ELSE NumVal(s, pos, n - 1) * 10 + DigitVal(s[pos + n - 1])

\* NaiveDate::parse_from_str(s, "%Y-%m-%d") on tokens without sign or blanks:
\* %Y takes 1..4 digits, %m and %d take 1..2 digits, "-" is a literal, no
\* input may remain, and the (year, month, day) must be a calendar date.
ParseFromStr(s) ==
    LET ny == ScanDigits(s, 1, 4)
        pm == ny + 2
        nm == ScanDigits(s, pm, 2)
        pd == pm + nm + 1
        nd == ScanDigits(s, pd, 2)
        shape == /\ ny >= 1 /\ nm >= 1 /\ nd >= 1
                 /\ Len(s) = ny + nm + nd + 2
                 /\ s[ny + 1] = "-"
                 /\ s[pm + nm] = "-"
    IN  IF ~shape THEN [ok |-> FALSE, date |-> NoDate]
        ELSE LET y == NumVal(s, 1, ny)
                 m == NumVal(s, pm, nm)
                 d == NumVal(s, pd, nd)
             IN  IF ValidDate(y, m, d) THEN [ok |-> TRUE, date |-> <<y, m, d>>]
                 ELSE [ok |-> FALSE, date |-> NoDate]

Today == <<"t", "o", "d", "a", "y">>

\* The clock: the UTC calendar date and hour, and the local zone's offset.
Clocks ==
    [utc : {<<2024, 2, 29>>}, hour : {1, 23}, offset : {-2, 2}]

NoClock == [utc |-> NoDate, hour |-> 0, offset |-> 0]

\* Utc::now().date_naive()
UtcDate(now) == now.utc

\* The local calendar date at the instant `now` (chrono Local::now().date_naive()).
LocalDate(now) ==
    IF now.hour + now.offset >= 24 THEN NextDay(now.utc)
    ELSE IF now.hour + now.offset < 0 THEN PrevDay(now.utc)
    ELSE now.utc

parse_date(date_str, now) ==
    IF date_str = Today THEN [ok |-> TRUE, date |-> UtcDate(now)]
    ELSE ParseFromStr(date_str)

Pad(n, w) == [i \in 1..w |-> DigitChars[((n \div (10 ^ (w - i))) % 10) + 1]]

\* NaiveDate::to_string(): "YYYY-MM-DD".
DateToString(dt) == Pad(dt[1], 4) \o <<"-">> \o Pad(dt[2], 2) \o <<"-">> \o Pad(dt[3], 2)

DateTokens ==
    { Today,
      <<"T", "o", "d", "a", "y">>,
      <<"2", "0", "2", "4", "-", "0", "2", "-", "2", "9">>,
      <<"2", "0", "2", "4", "-", "0", "2", "-", "3", "0">>,
      <<"2", "0", "2", "4", "-", "1", "3", "-", "0", "1">>,
      <<"n", "o", "t", "-", "a", "-", "d", "a", "t", "e">> }

\* ------------------------------------------------------------------- state
VARIABLES
    args,      \* the parsed command line (Args)
    pc,        \* where main is suspended
    canteens,  \* the Vec<Canteen> fetch_canteens returned
    date,      \* the NaiveDate parse_date returned
    idx,       \* print_meals: position of the canteen being processed
    result,    \* what print_meals returned
    clock,     \* the clock value parse_date read
    log        \* everything observable, in order: collaborator calls and
               \* their answers, lines on stdout, lines on stderr

vars == <<args, pc, canteens, date, idx, result, clock, log>>

Ev(k, op, name, info) == [k |-> k, op |-> op, name |-> name, info |-> info]

CallEv(op, name, info) == Ev("call", op, name, info)

RetEv(op, outcome) == Ev("ret", op, outcome, 0)

\* The answer Ok(cs) of a directory lookup.
AnswerEv(op, cs) == Ev("ret", op, "ok", cs)

OutEv(op, name, info) == Ev("out", op, name, info)

ErrEv(msg, name) == Ev("err", msg, name, 0)

Pending == [state |-> "pending", name |-> ""]

ArgsSpace ==
    [ discord_bot : BOOLEAN, meme : BOOLEAN, daily_fact : BOOLEAN,
      random_fact : BOOLEAN, id : {None, Some(1)}, location : {None, Some("Dresden")},
      date : DateTokens, token : {None, Some("tok")}, env_file : {None, Some(".env.bot")} ]

Init ==
    /\ args \in ArgsSpace
    /\ pc = "main"
    /\ canteens = <<>>
    /\ date = NoDate
    /\ idx = 0
    /\ result = Pending
    /\ clock = NoClock
    /\ log = <<>>

\* ----------------------------------------------------------- chat-bot mode
\* What get_bot_token reads besides the arguments: whether ./.env exists,
\* whether the --env-file path exists, whether DISCORD_TOKEN is set.
FsSpace == [dotenv : BOOLEAN, envpath : BOOLEAN, var : BOOLEAN]

get_bot_token(a, fs) ==
    IF a.token = None /\ a.env_file = None THEN
        IF ~fs.dotenv THEN [ok |-> FALSE, v |-> "Please provide a Discord Token"]
        ELSE IF fs.var THEN [ok |-> TRUE, v |-> "env-token"]
        ELSE [ok |-> FALSE, v |-> "Could not find DISCORD_TOKEN"]
    ELSE IF a.env_file # None THEN
        IF ~fs.envpath THEN [ok |-> FALSE, v |-> "Wrong path passed to arg"]
        ELSE IF fs.var THEN [ok |-> TRUE, v |-> "env-token"]
        ELSE [ok |-> FALSE, v |-> "Could not find DISCORD_TOKEN"]
    ELSE IF a.token # None THEN [ok |-> TRUE, v |-> Unwrap(a.token)]
    ELSE [ok |-> FALSE, v |-> "No valid token source provided"]

\* main.rs 148-152 with handle_discord_bot failing: the error is printed, main returns.
BotTokenError ==
    /\ pc = "main"
    /\ args.discord_bot
    /\ \E fs \in FsSpace :
          LET t == get_bot_token(args, fs)
          IN  /\ ~t.ok
              /\ log' = log \o <<ErrEv(t.v, "")>>
    /\ pc' = "done"
    /\ UNCHANGED <<args, canteens, date, idx, result, clock>>

\* handle_discord_bot with a token: bot::start_bot(&token) is awaited.
BotStart ==
    /\ pc = "main"
    /\ args.discord_bot
    /\ \E fs \in FsSpace :
          LET t == get_bot_token(args, fs)
          IN  /\ t.ok
              /\ log' = log \o <<CallEv("start_bot", t.v, 0)>>
    /\ pc' = "bot_running"
    /\ UNCHANGED <<args, canteens, date, idx, result, clock>>

\* Where main continues once handle_discord_bot returned Ok(()).
AfterBot == "config"

\* start_bot returns; handle_discord_bot returns Ok(()) and main goes on.
BotReturns ==
    /\ pc = "bot_running"
    /\ log' = log \o <<RetEv("start_bot", "ok")>>
    /\ pc' = AfterBot
    /\ UNCHANGED <<args, canteens, date, idx, result, clock>>

\* ------------------------------------------------------ configuration file
\* main is about to read the configuration file.
AtConfig == pc = "config" \/ (pc = "main" /\ ~args.discord_bot)

ConfigReadError ==
    /\ AtConfig
    /\ log' = log \o <<ErrEv("Error reading config file", "")>>
    /\ pc' = "done"
    /\ UNCHANGED <<args, canteens, date, idx, result, clock>>

ConfigParseError ==
    /\ AtConfig
    /\ log' = log \o <<ErrEv("Failed to parse the TOML", "")>>
    /\ pc' = "done"
    /\ UNCHANGED <<args, canteens, date, idx, result, clock>>

\* ---------------------------------------------------------------- dispatch
\* Mutant: the test for both selectors is missing.
ConflictNever(a) == FALSE

Conflict(a) == a.id # None /\ a.location # None

\* The order of the tests of main.rs 173-194.
Dispatch(a) ==
    IF a.meme THEN "meme"
    ELSE IF a.daily_fact THEN "daily_fact"
    ELSE IF a.random_fact THEN "random_fact"
    ELSE IF Conflict(a) THEN "conflict"
    ELSE "meals"

\* The order of the tests of fetch_canteens.
Strategy(a) ==
    IF a.id # None THEN "get_canteen_by_id"
    ELSE IF a.location # None THEN "get_canteens_by_location"
    ELSE "get_canteens_by_ids"

\* The configuration loaded; one of the novelty lookups is awaited.
Novelty ==
    /\ AtConfig
    /\ Dispatch(args) \in {"meme", "daily_fact", "random_fact"}
    /\ log' = log \o <<CallEv(Dispatch(args), "", 0)>>
    /\ pc' = "novelty"
    /\ UNCHANGED <<args, canteens, date, idx, result, clock>>

NoveltyOk ==
    /\ pc = "novelty"
    /\ log' = log \o <<RetEv(Dispatch(args), "ok"), OutEv(Dispatch(args), "", 0)>>
    /\ pc' = "done"
    /\ UNCHANGED <<args, canteens, date, idx, result, clock>>

NoveltyError ==
    /\ pc = "novelty"
    /\ log' = log \o <<RetEv(Dispatch(args), "err"), ErrEv("Error fetching novelty", "")>>
    /\ pc' = "done"
    /\ UNCHANGED <<args, canteens, date, idx, result, clock>>

\* The configuration loaded; both selectors are set.
SelectorConflict ==
    /\ AtConfig
    /\ Dispatch(args) = "conflict"
    /\ log' = log \o <<ErrEv("Use either location or id", "")>>
    /\ pc' = "done"
    /\ UNCHANGED <<args, canteens, date, idx, result, clock>>

\* -------------------------------------------------------------- resolution
\* fetch_canteens is entered with the id selector: get_canteen_by_id(id) is awaited.
LookupById ==
    /\ AtConfig
    /\ Dispatch(args) = "meals"
    /\ Strategy(args) = "get_canteen_by_id"
    /\ log' = log \o <<CallEv("get_canteen_by_id", "", Unwrap(args.id))>>
    /\ pc' = "await_by_id"
    /\ UNCHANGED <<args, canteens, date, idx, result, clock>>

LookupByLocation ==
    /\ AtConfig
    /\ Dispatch(args) = "meals"
    /\ Strategy(args) = "get_canteens_by_location"
    /\ log' = log \o <<CallEv("get_canteens_by_location", Unwrap(args.location), 0)>>
    /\ pc' = "await_by_location"
    /\ UNCHANGED <<args, canteens, date, idx, result, clock>>

\* ids: configs.locations.canteens of the configuration that was loaded.
LookupByIds ==
    /\ AtConfig
    /\ Dispatch(args) = "meals"
    /\ Strategy(args) = "get_canteens_by_ids"
    /\ \E ids \in DefaultIdLists :
          log' = log \o <<CallEv("get_canteens_by_ids", "", ids)>>
    /\ pc' = "await_by_ids"
    /\ UNCHANGED <<args, canteens, date, idx, result, clock>>

\* Mutant: the canteens are processed from the last to the first.
VisitReversed(cs, i) == cs[Len(cs) + 1 - i]

\* print_meals: the canteen processed at position i of cs.
Visit(cs, i) == cs[i]

\* Mutant: the header is printed when the fetch is issued, before its answer.
LoopFromHeaderFirst(i, cs, dt, before) ==
    /\ idx' = i
    /\ IF i <= Len(cs)
       THEN /\ log' = log \o before \o
                    << OutEv("header", Visit(cs, i).name, 0),
                       CallEv("get_meals", Visit(cs, i).name, DateToString(dt)) >>
            /\ pc' = "await_meals"
            /\ result' = result
       ELSE /\ log' = log \o before
            /\ pc' = "done"
            /\ result' = [state |-> "ok", name |-> ""]

\* print_meals at position i of cs, after `before` was logged: the next
\* get_meals is awaited, or the loop is over and Ok(()) is returned.
LoopFrom(i, cs, dt, before) ==
    /\ idx' = i
    /\ IF i <= Len(cs)
       THEN /\ log' = log \o before \o
                    <<CallEv("get_meals", Visit(cs, i).name, DateToString(dt))>>
            /\ pc' = "await_meals"
            /\ result' = result
       ELSE /\ log' = log \o before
            /\ pc' = "done"
            /\ result' = [state |-> "ok", name |-> ""]

\* fetch_canteens returns Some(cs): main parses the date, then calls print_meals.
Resolved(op, cs) ==
    \E now \in Clocks :
        LET r == parse_date(args.date, now)
        IN  /\ canteens' = cs
            /\ clock' = IF args.date = Today THEN now ELSE clock
            /\ args' = args
            /\ IF r.ok
               THEN /\ date' = r.date
                    /\ LoopFrom(1, cs, r.date, <<AnswerEv(op, cs)>>)
               ELSE /\ log' = log \o <<AnswerEv(op, cs), ErrEv("Error parsing date", "")>>
                    /\ pc' = "done"
                    /\ UNCHANGED <<date, idx, result>>

\* Mutant: the failed lookup is reported, but an empty list is handed on
\* (Some(vec![]) instead of None), so main still calls print_meals.
ResolveFailedReturnsEmpty(op, outcome, msg) ==
    /\ log' = log \o <<RetEv(op, outcome), ErrEv(msg, "")>>
    /\ pc' = "done"
    /\ result' = [state |-> "ok", name |-> ""]
    /\ UNCHANGED <<args, canteens, date, idx, clock>>

\* fetch_canteens returns None: the message is on stderr, and main ends.
ResolveFailed(op, outcome, msg) ==
    /\ log' = log \o <<RetEv(op, outcome), ErrEv(msg, "")>>
    /\ pc' = "done"
    /\ UNCHANGED <<args, canteens, date, idx, result, clock>>

ByIdFound ==
    /\ pc = "await_by_id"
    /\ \E i \in CanteenIds : Resolved("get_canteen_by_id", <<Canteen(i)>>)

\* Mutant: an id that is not found falls back to the configured default ids.
ByIdNotFoundFallsBack ==
    /\ pc = "await_by_id"
    /\ \E ids \in DefaultIdLists :
          log' = log \o <<RetEv("get_canteen_by_id", "none"),
                          CallEv("get_canteens_by_ids", "", ids)>>
    /\ pc' = "await_by_ids"
    /\ UNCHANGED <<args, canteens, date, idx, result, clock>>

ByIdNotFound ==
    /\ pc = "await_by_id"
    /\ ResolveFailed("get_canteen_by_id", "none", "Canteen not found by ID")

ByIdError ==
    /\ pc = "await_by_id"
    /\ ResolveFailed("get_canteen_by_id", "err", "Error fetching canteens by ID")

ByLocationOk ==
    /\ pc = "await_by_location"
    /\ \E cs \in CanteenLists : Resolved("get_canteens_by_location", cs)

ByLocationError ==
    /\ pc = "await_by_location"
    /\ ResolveFailed("get_canteens_by_location", "err", "Error fetching canteens by location")

ByIdsOk ==
    /\ pc = "await_by_ids"
    /\ \E cs \in CanteenLists : Resolved("get_canteens_by_ids", cs)

ByIdsError ==
    /\ pc = "await_by_ids"
    /\ ResolveFailed("get_canteens_by_ids", "err", "Error fetching canteens by IDs")

\* --------------------------------------------------------------- rendering
\* get_meals answered with n meals: header and table are printed, the loop goes on.
MealsOk ==
    /\ pc = "await_meals"
    /\ \E n \in 0..MaxMeals :
          LoopFrom(idx + 1, canteens, date,
                   << RetEv("get_meals", "ok"),
                      OutEv("header", Visit(canteens, idx).name, 0),
                      OutEv("table", "", n) >>)
    /\ UNCHANGED <<args, canteens, date, clock>>

\* Mutant: a failed fetch is reported and the loop goes on with the next canteen.
MealsErrorContinues ==
    /\ pc = "await_meals"
    /\ LoopFrom(idx + 1, canteens, date,
                << RetEv("get_meals", "err"),
                   ErrEv("Error printing meals", Visit(canteens, idx).name) >>)
    /\ UNCHANGED <<args, canteens, date, clock>>

\* get_meals failed: print_meals returns Err naming the canteen, main prints it.
MealsError ==
    /\ pc = "await_meals"
    /\ log' = log \o << RetEv("get_meals", "err"),
                        ErrEv("Error printing meals", Visit(canteens, idx).name) >>
    /\ result' = [state |-> "err", name |-> Visit(canteens, idx).name]
    /\ pc' = "done"
    /\ UNCHANGED <<args, canteens, date, idx, clock>>

\* ----------------------------------------------------------- specification
Next ==
    \/ BotTokenError
    \/ BotStart
    \/ BotReturns
    \/ ConfigReadError
    \/ ConfigParseError
    \/ Novelty
    \/ NoveltyOk
    \/ NoveltyError
    \/ SelectorConflict
    \/ LookupById
    \/ LookupByLocation
    \/ LookupByIds
    \/ ByIdFound
    \/ ByIdNotFound
    \/ ByIdError
    \/ ByLocationOk
    \/ ByLocationError
    \/ ByIdsOk
    \/ ByIdsError
    \/ MealsOk
    \/ MealsError

Spec == Init /\ [][Next]_vars

\* ------------------------------------------------------------ observations
DirOps == {"get_canteen_by_id", "get_canteens_by_location", "get_canteens_by_ids"}

NoveltyOps == {"meme", "daily_fact", "random_fact"}

IsDirCall(e) == e.k = "call" /\ e.op \in DirOps

IsMealCall(e) == e.k = "call" /\ e.op = "get_meals"

IsSection(e) == e.k = "out" /\ e.op \in {"header", "table"}

DirCalls == SelectSeq(log, IsDirCall)

MealCalls == SelectSeq(log, IsMealCall)

Sections == SelectSeq(log, IsSection)

Stdout == SelectSeq(log, LAMBDA e : e.k = "out")

Stderr == SelectSeq(log, LAMBDA e : e.k = "err")

IsPrefix(s, t) == Len(s) <= Len(t) /\ \A i \in 1..Len(s) : s[i] = t[i]

\* Positions of the log where a meal fetch is answered with an error.
FailPos == {p \in 1..Len(log) : log[p].k = "ret" /\ log[p].op = "get_meals" /\ log[p].name = "err"}

\* How many meal fetches were issued up to position p of the log.
MealCallsUpTo(p) == Cardinality({q \in 1..p : IsMealCall(log[q])})

\* Positions of the log where a directory lookup is answered without a record.
DirFailPos == {p \in 1..Len(log) : log[p].k = "ret" /\ log[p].op \in DirOps /\ log[p].name \in {"none", "err"}}

\* ------------------------------------------------------------------ claims
\* C1 (fail-fast): when the meal fetch for canteen ci fails, it is the fetch
\* issued just before; no meal fetch is issued afterwards and none was ever
\* issued for c(i+1)..cn; nothing is printed afterwards and no header of
\* ci..cn was ever printed; print_meals returned the error naming ci and no
\* other canteen.
C1_FailFast ==
    \A p \in FailPos :
        LET i == MealCallsUpTo(p)
        IN  /\ i \in 1..Len(canteens)
            /\ IsMealCall(log[p - 1]) /\ log[p - 1].name = canteens[i].name
            /\ \A q \in (p + 1)..Len(log) : ~IsMealCall(log[q]) /\ log[q].k # "out"
            /\ \A q \in 1..Len(log) : \A j \in i..Len(canteens) :
                  /\ ~(IsSection(log[q]) /\ log[q].op = "header" /\ log[q].name = canteens[j].name)
                  /\ j > i => ~(IsMealCall(log[q]) /\ log[q].name = canteens[j].name)
            /\ result = [state |-> "err", name |-> canteens[i].name]
            /\ \A j \in 1..Len(canteens) : j # i => result.name # canteens[j].name
            /\ pc = "done"

\* C1 witness: of three canteens the second one's fetch failed.
C1_Witness ==
    /\ Len(canteens) = 3
    /\ \E p \in FailPos : MealCallsUpTo(p) = 2
    /\ result.state = "err"

RECURSIVE ExpectedRender(_, _)
\* What print_meals does for cs from position i on when no fetch fails.
ExpectedRender(cs, i) ==
    IF i > Len(cs) THEN <<>>
    ELSE << <<"fetch", cs[i].name>>, <<"fetched", "">>,
            <<"header", cs[i].name>>, <<"table", "">> >> \o ExpectedRender(cs, i + 1)

RenderTag(e) ==
    IF e.k = "call" THEN <<"fetch", e.name>>
    ELSE IF e.k = "ret" THEN <<"fetched", "">>
    ELSE IF e.op = "header" THEN <<"header", e.name>>
    ELSE <<"table", "">>

\* The meal fetches issued, the ones answered, and the lines printed, in order.
RenderTrace ==
    LET t == SelectSeq(log, LAMBDA e : \/ IsMealCall(e)
                                       \/ IsSection(e)
                                       \/ (e.k = "ret" /\ e.op = "get_meals" /\ e.name = "ok"))
    IN  [q \in DOMAIN t |-> RenderTag(t[q])]

\* C2 (ordering): the meal fetches, their answers and the printed header and
\* table follow the resolver's output order, one canteen at a time: fetch,
\* answer, header, table of canteen i all come before the fetch of canteen
\* i+1; and a report that ended with Ok has visited every canteen.
C2_Ordering ==
    /\ IsPrefix(RenderTrace, ExpectedRender(canteens, 1))
    /\ result.state = "ok" => RenderTrace = ExpectedRender(canteens, 1)

\* C2 witness: a complete report over three canteens that are not in id order.
C2_Witness ==
    /\ result.state = "ok"
    /\ Len(canteens) = 3
    /\ canteens[1].id = 3 /\ canteens[2].id = 1 /\ canteens[3].id = 2
    /\ Len(Sections) = 6

\* C3 (as claimed): with a date token that is neither "today" nor a valid
\* YYYY-MM-DD date, no directory lookup and no meal fetch is ever performed.
C3_DateErrorBeforeNetwork ==
    ~parse_date(args.date, NoClock).ok => DirCalls = <<>> /\ MealCalls = <<>>

\* Messages with which main ends before it has loaded the configuration.
EarlyErrors ==
    { "Please provide a Discord Token", "Could not find DISCORD_TOKEN",
      "Wrong path passed to arg", "No valid token source provided",
      "Error reading config file", "Failed to parse the TOML" }

HaltedEarly == \E q \in 1..Len(log) : log[q].k = "err" /\ log[q].op \in EarlyErrors

NoveltyFlag(a) == a.meme \/ a.daily_fact \/ a.random_fact

ConflictSignalled ==
    /\ Len(log) >= 1
    /\ log[Len(log)].k = "err"
    /\ log[Len(log)].op = "Use either location or id"

\* C4 (as claimed): an invocation with both selectors that has loaded its
\* configuration ends having signalled the conflict, with no directory
\* lookup, no meal fetch and nothing on stdout.
C4_ConflictAlwaysSignalled ==
    (Conflict(args) /\ pc = "done" /\ ~HaltedEarly) =>
        /\ ConflictSignalled
        /\ DirCalls = <<>> /\ MealCalls = <<>>
        /\ Stdout = <<>>

\* C4 (amended): with both selectors set there is never a directory lookup
\* nor a meal fetch, and no canteen header or table is printed; and when no
\* novelty flag (meme, daily fact, random fact) is set, an invocation that
\* has loaded its configuration ends having signalled the conflict, with
\* nothing on stdout.
C4_ConflictHalts ==
    (args.id # None /\ args.location # None) =>
        /\ DirCalls = <<>> /\ MealCalls = <<>> /\ Sections = <<>>
        /\ (pc = "done" /\ ~HaltedEarly /\ ~NoveltyFlag(args)) =>
              ConflictSignalled /\ Stdout = <<>>

\* C4 witness: both selectors, no novelty flag, the conflict was signalled.
C4_Witness ==
    /\ args.id # None /\ args.location # None
    /\ ~NoveltyFlag(args)
    /\ pc = "done"
    /\ ConflictSignalled

\* Resolution has been entered: fetch_canteens issued its lookup.
ResolutionEntered == pc \in {"await_by_id", "await_by_location", "await_by_ids", "await_meals"} \/ DirCalls # <<>>

\* The answers Ok(..) the directory gave.
DirAnswers ==
    SelectSeq(log, LAMBDA e : e.k = "ret" /\ e.op \in DirOps /\ e.name = "ok")

\* C5 (one strategy): at most one directory lookup is ever made, and exactly
\* one once resolution was entered; it is the lookup by id when an id is
\* given, else the lookup by location when a location is given, else the
\* batch lookup of the default ids; a lookup that failed or found nothing is
\* followed by no other one; and the list handed on is the answer of that
\* one lookup, nothing added (empty as long as there is no answer).
C5_OneLookup ==
    /\ Len(DirCalls) <= 1
    /\ ResolutionEntered => Len(DirCalls) = 1
    /\ Len(DirCalls) = 1 =>
          LET c == DirCalls[1]
          IN  /\ args.id # None => c.op = "get_canteen_by_id" /\ c.info = Unwrap(args.id)
              /\ (args.id = None /\ args.location # None) =>
                    c.op = "get_canteens_by_location" /\ c.name = Unwrap(args.location)
              /\ (args.id = None /\ args.location = None) => c.op = "get_canteens_by_ids"
              /\ \A q \in 1..Len(DirAnswers) : DirAnswers[q].op = c.op
    /\ Len(DirAnswers) <= 1
    /\ canteens = IF DirAnswers = <<>> THEN <<>> ELSE DirAnswers[1].info

\* C5 witness: the id was not found, main has ended, and that lookup is the only one.
C5_Witness ==
    /\ pc = "done"
    /\ \E p \in DirFailPos : log[p].op = "get_canteen_by_id" /\ log[p].name = "none"
    /\ Len(DirCalls) = 1

\* C6 (resolution failure halts): when a directory lookup is answered with
\* no record or with an error, the failure is reported on stderr, that
\* report is the last thing the invocation does, print_meals is never
\* called, no meal fetch is issued and nothing is printed on stdout.
C6_ResolutionFailureHalts ==
    \A p \in DirFailPos :
        /\ Len(log) = p + 1
        /\ log[p + 1].k = "err"
        /\ log[p + 1].op \in { "Canteen not found by ID", "Error fetching canteens by ID",
                               "Error fetching canteens by location",
                               "Error fetching canteens by IDs" }
        /\ pc = "done"
        /\ result.state = "pending"
        /\ MealCalls = <<>>
        /\ Stdout = <<>>

\* C6 witness: the batch lookup of the default ids failed.
C6_Witness ==
    /\ pc = "done"
    /\ \E p \in DirFailPos : log[p].op = "get_canteens_by_ids" /\ log[p].name = "err"

\* The sections of the first n canteens: header and table of each, in order.
SectionsOf(cs, n) ==
    [q \in 1..(2 * n) |-> IF q % 2 = 1 THEN <<"header", cs[(q + 1) \div 2].name>>
                          ELSE <<"table", "">>]

SectionTrace == [q \in DOMAIN Sections |-> <<Sections[q].op, Sections[q].name>>]

\* C7 (partial output, full halt): a header is printed only right after the
\* successful answer to the fetch of that same canteen; and when the fetch of
\* ci fails, stdout holds exactly header and table of c1..c(i-1), each once
\* and in order, and no header of ci.
C7_PartialOutput ==
    /\ \A q \in 1..Len(log) :
          (IsSection(log[q]) /\ log[q].op = "header") =>
              /\ q >= 3
              /\ log[q - 1].k = "ret" /\ log[q - 1].op = "get_meals" /\ log[q - 1].name = "ok"
              /\ IsMealCall(log[q - 2]) /\ log[q - 2].name = log[q].name
    /\ \A p \in FailPos :
          LET i == MealCallsUpTo(p)
          IN  /\ SectionTrace = SectionsOf(canteens, i - 1)
              /\ Len(Stdout) = Len(Sections)

\* C7 witness: the third canteen's fetch failed after two sections were printed.
C7_Witness ==
    /\ \E p \in FailPos : MealCallsUpTo(p) = 3
    /\ Len(Sections) = 4
    /\ pc = "done"

\* C8 (as claimed): with only a location selector and a location lookup
\* answered with the empty list, there is no error and no other lookup, and
\* the renderer completes with Ok, with no meal fetch and no section.
C8_EmptyLocationRendersOk ==
    ( /\ args.id = None /\ args.location # None
      /\ \E q \in 1..Len(log) : /\ log[q].k = "ret"
                                /\ log[q].op = "get_canteens_by_location"
                                /\ log[q].name = "ok"
      /\ canteens = <<>> ) =>
        /\ Len(DirCalls) = 1
        /\ Stderr = <<>>
        /\ MealCalls = <<>> /\ Sections = <<>>
        /\ pc = "done" /\ result.state = "ok"

\* C9 (as claimed): for the token "today" the date is the local calendar
\* date of the clock that was read, and every meal fetch is given that date.
C9_TodayIsLocalDate ==
    (args.date = Today /\ clock # NoClock) =>
        /\ date = LocalDate(clock)
        /\ \A q \in 1..Len(MealCalls) : MealCalls[q].info = DateToString(LocalDate(clock))

\* C10 (as claimed): in an invocation started with the chat-bot flag there is
\* never a directory lookup, a meal fetch or a novelty lookup.
C10_BotExcludesPipeline ==
    args.discord_bot =>
        /\ DirCalls = <<>> /\ MealCalls = <<>>
        /\ \A q \in 1..Len(log) : ~(log[q].k = "call" /\ log[q].op \in NoveltyOps)

====
